---------------------------- MODULE Spec2Model ----------------------------
(***************************************************************************)
(* obsidian_to_jekyll.py: Obsidian notes -> Jekyll posts.                  *)
(*                                                                         *)
(* Strings are sequences of one-character strings; "\n" is the line feed.  *)
(* Python's 0-based half-open positions are written 1-based inclusive:     *)
(* a match with start() = a and end() = b covers the elements a+1 .. b.    *)
(***************************************************************************)
EXTENDS Integers, Sequences, FiniteSets, TLC

(***************************************************************************)
(* str helpers                                                             *)
(***************************************************************************)
SetMax(S) == CHOOSE x \in S : \A y \in S : y <= x

SetMin(S) == CHOOSE x \in S : \A y \in S : x <= y

\* s[a..b], empty when a > b (Python slice s[a-1:b])
Slice(s, a, b) == IF a > b THEN <<>> ELSE SubSeq(s, a, b)

\* s[a..] (Python slice s[a-1:])
From(s, a) == Slice(s, a, Len(s))

\* str.rfind(c) + 1: the last position of c in s, 0 when there is none
rfind(s, c) ==
    LET S == {i \in 1..Len(s) : s[i] = c}
    IN  IF S = {} THEN 0 ELSE SetMax(S)

\* str.startswith(p)
startswith(s, p) == Len(s) >= Len(p) /\ SubSeq(s, 1, Len(p)) = p

\* whether p occurs in s as a contiguous run
Contains(s, p) ==
    \E i \in 1..(Len(s) - Len(p) + 1) : SubSeq(s, i, i + Len(p) - 1) = p

Upper == <<"A","B","C","D","E","F","G","H","I","J","K","L","M",
           "N","O","P","Q","R","S","T","U","V","W","X","Y","Z">>

Lower == <<"a","b","c","d","e","f","g","h","i","j","k","l","m",
           "n","o","p","q","r","s","t","u","v","w","x","y","z">>

Digits == <<"0","1","2","3","4","5","6","7","8","9">>

IsDigit(c) == \E i \in 1..Len(Digits) : Digits[i] = c

IsLetter(c) == \E i \in 1..Len(Upper) : Upper[i] = c \/ Lower[i] = c

IsSpace(c) == c \in {" ", "\t", "\n"}

\* str.lower(), per character
lower_char(c) ==
    IF \E i \in 1..Len(Upper) : Upper[i] = c
    THEN Lower[CHOOSE i \in 1..Len(Upper) : Upper[i] = c]
    ELSE c

lower(s) == [i \in 1..Len(s) |-> lower_char(s[i])]

\* str.strip()
strip(s) ==
    LET K == {i \in 1..Len(s) : ~IsSpace(s[i])}
    IN  IF K = {} THEN <<>> ELSE SubSeq(s, SetMin(K), SetMax(K))

\* str.splitlines(): no trailing empty line for a final line feed
RECURSIVE splitlines(_)
splitlines(s) ==
    IF s = <<>> THEN <<>>
    ELSE LET N == {i \in 1..Len(s) : s[i] = "\n"}
         IN  IF N = {} THEN <<s>>
             ELSE <<Slice(s, 1, SetMin(N) - 1)>> \o splitlines(From(s, SetMin(N) + 1))

\* '\n'.join(lines)
RECURSIVE join(_)
join(lines) ==
    IF lines = <<>> THEN <<>>
    ELSE IF Len(lines) = 1 THEN lines[1]
    ELSE lines[1] \o <<"\n">> \o join(Tail(lines))

\* ' '.join(markups)
RECURSIVE join_space(_)
join_space(parts) ==
    IF parts = <<>> THEN <<>>
    ELSE IF Len(parts) = 1 THEN parts[1]
    ELSE parts[1] \o <<" ">> \o join_space(Tail(parts))

AllDigits(s) == s # <<>> /\ \A i \in 1..Len(s) : IsDigit(s[i])

DigitVal(c) == (CHOOSE i \in 1..Len(Digits) : Digits[i] = c) - 1

\* int(s) for a string of decimal digits
RECURSIVE int(_)
int(s) ==
    IF s = <<>> THEN 0
    ELSE 10 * int(SubSeq(s, 1, Len(s) - 1)) + DigitVal(s[Len(s)])

\* str(n) for n >= 0, as an f-string formats it
RECURSIVE str(_)
str(n) ==
    IF n < 10 THEN <<Digits[n + 1]>>
    ELSE str(n \div 10) \o <<Digits[(n % 10) + 1]>>

(***************************************************************************)
(* The regular expressions of the Post class.  NoMatch stands for None.    *)
(***************************************************************************)
NoMatch == [start |-> 0]

\* re.fullmatch(r"(\d+)(?:x(\d+))?", s): <<matched, group 1, group 2>>,
\* group 2 empty when the x part is absent
size_match(s) ==
    LET X == {i \in 1..Len(s) : s[i] = "x"}
    IN  IF AllDigits(s) THEN <<TRUE, s, <<>>>>
        ELSE IF X # {} /\ AllDigits(Slice(s, 1, SetMin(X) - 1))
                       /\ AllDigits(From(s, SetMin(X) + 1))
             THEN <<TRUE, Slice(s, 1, SetMin(X) - 1), From(s, SetMin(X) + 1)>>
             ELSE <<FALSE, <<>>, <<>>>>

\* r"!\[(.*)\]\((.+)\)" (attr = FALSE) and r"!\[(.*)\]\((.+)\)(?:{[^}]*})?"
\* (attr = TRUE) matched at position s of line.  Both groups are greedy: the
\* url group ends at the last ")" of the line and the alt group at the last
\* "](" that leaves the url group one character.
image_match_at(line, s, attr) ==
    LET n  == Len(line)
        Q  == {q \in 1..n : line[q] = ")"}
        qL == IF Q = {} THEN 0 ELSE SetMax(Q)
        P  == {p \in (s + 2)..(n - 1) :
                  line[p] = "]" /\ line[p + 1] = "(" /\ p + 3 <= qL}
        p  == SetMax(P)
        R  == {r \in (qL + 2)..n : line[r] = "}"}
        e  == IF attr /\ qL + 1 <= n /\ line[qL + 1] = "{" /\ R # {}
              THEN SetMin(R) ELSE qL
    IN  IF s + 1 <= n /\ line[s] = "!" /\ line[s + 1] = "[" /\ P # {}
        THEN [start |-> s, end |-> e, s1 |-> s + 2, e1 |-> p - 1,
              s2 |-> p + 2, e2 |-> qL - 1]
        ELSE NoMatch

\* the next match of re.finditer at or after position from
image_search(line, from, attr) ==
    LET S == {s \in from..Len(line) : image_match_at(line, s, attr) # NoMatch}
    IN  IF S = {} THEN NoMatch ELSE image_match_at(line, SetMin(S), attr)

\* r"\[(.*?)\]\((.*?)\)" matched at position s: both groups are lazy
url_match_at(line, s) ==
    LET n == Len(line)
        P == {p \in (s + 1)..(n - 1) :
                 line[p] = "]" /\ line[p + 1] = "("
                 /\ \E q \in (p + 2)..n : line[q] = ")"}
        p == SetMin(P)
        q == SetMin({q \in (p + 2)..n : line[q] = ")"})
    IN  IF s <= n /\ line[s] = "[" /\ P # {}
        THEN [start |-> s, end |-> q, s1 |-> s + 1, e1 |-> p - 1,
              s2 |-> p + 2, e2 |-> q - 1]
        ELSE NoMatch

url_search(line, from) ==
    LET S == {s \in from..Len(line) : url_match_at(line, s) # NoMatch}
    IN  IF S = {} THEN NoMatch ELSE url_match_at(line, SetMin(S))

\* r"\[\[(.*?)\]\]" matched at position s
wikilink_match_at(line, s) ==
    LET n == Len(line)
        P == {p \in (s + 2)..(n - 1) : line[p] = "]" /\ line[p + 1] = "]"}
        p == SetMin(P)
    IN  IF s + 1 <= n /\ line[s] = "[" /\ line[s + 1] = "[" /\ P # {}
        THEN [start |-> s, end |-> p + 1, s1 |-> s + 2, e1 |-> p - 1]
        ELSE NoMatch

wikilink_search(line, from) ==
    LET S == {s \in from..Len(line) : wikilink_match_at(line, s) # NoMatch}
    IN  IF S = {} THEN NoMatch ELSE wikilink_match_at(line, SetMin(S))

(***************************************************************************)
(* Post.set_image_size                                                     *)
(***************************************************************************)
\* get_image_size(alt): <<alt, width, height>>; 0 stands for "no size"
get_image_size(alt) ==
    LET idx == rfind(alt, "|")
        m   == size_match(From(alt, idx + 1))
    IN  IF idx # 0
        THEN IF ~m[1] THEN <<alt, 0, 0>>
             ELSE <<Slice(alt, 1, idx - 1), int(m[2]),
                    IF m[3] = <<>> THEN 0 ELSE int(m[3])>>
        ELSE <<alt, 0, 0>>

WidthAttr(w) == <<"w","i","d","t","h","=","\"">> \o str(w) \o <<"\"">>

HeightAttr(h) == <<"h","e","i","g","h","t","=","\"">> \o str(h) \o <<"\"">>

NormalAttr == <<".","n","o","r","m","a","l">>

\* the markup written for one match img of line (the body of the img loop)
image_markup(line, img) ==
    LET sz      == get_image_size(Slice(line, img.s1, img.e1))
        markups == (IF sz[2] # 0 THEN <<WidthAttr(sz[2])>> ELSE <<>>)
                   \o (IF sz[3] # 0 THEN <<HeightAttr(sz[3])>> ELSE <<>>)
                   \o (IF img.start # 1 \/ img.end # Len(line)
                       THEN <<NormalAttr>> ELSE <<>>)
    IN  <<"!","[">> \o sz[1] \o <<"]","(">> \o Slice(line, img.s2, img.e2)
        \o <<")">>
        \o (IF markups # <<>>
            THEN <<"{",":"," ">> \o join_space(markups) \o <<" ","}">>
            ELSE <<>>)

\* the loop over re.finditer for one line: pos is the next position to copy
RECURSIVE size_scan(_, _, _)
size_scan(line, pos, newline) ==
    LET img == image_search(line, pos, FALSE)
    IN  IF img = NoMatch THEN newline \o From(line, pos)
        ELSE size_scan(line, img.end + 1,
                       newline \o Slice(line, pos, img.start - 1)
                               \o image_markup(line, img))

set_image_size(content) ==
    LET lines == splitlines(content)
    IN  join([i \in 1..Len(lines) |-> size_scan(lines[i], 1, <<>>)])

(***************************************************************************)
(* Post.set_image_caption                                                  *)
(***************************************************************************)
\* get_caption(alt): <<alt, cap>>
get_caption(alt) ==
    LET idx == rfind(alt, "|")
    IN  IF idx # 0 THEN <<Slice(alt, 1, idx - 1), From(alt, idx + 1)>>
        ELSE <<alt, <<>>>>

\* the loop over re.finditer for one line: scan is where the next search
\* starts, pos the next position to copy, caption the variable the loop
\* leaves behind.  The result is <<rewritten line, caption>>.
RECURSIVE caption_scan(_, _, _, _, _)
caption_scan(line, scan, pos, newline, caption) ==
    LET img == image_search(line, scan, TRUE)
        gc  == get_caption(Slice(line, img.s1, img.e1))
        cap == IF gc[2] # <<>> /\ (img.start # 1 \/ img.end # Len(line))
               THEN <<>> ELSE gc[2]
    IN  IF img = NoMatch THEN <<newline \o From(line, pos), caption>>
        ELSE IF gc[2] # <<>>
             THEN caption_scan(line, img.end + 1, img.e1 + 1,
                               newline \o Slice(line, pos, img.s1 - 1) \o gc[1],
                               cap)
             ELSE caption_scan(line, img.end + 1, pos, newline, cap)

\* the lines one input line becomes
caption_lines(line) ==
    LET r == caption_scan(line, 1, 1, <<>>, <<>>)
    IN  IF r[2] # <<>> THEN <<r[1], <<"_">> \o r[2] \o <<"_">>>>
        ELSE <<r[1]>>

RECURSIVE caption_all(_)
caption_all(lines) ==
    IF lines = <<>> THEN <<>>
    ELSE caption_lines(lines[1]) \o caption_all(Tail(lines))

set_image_caption(content) == join(caption_all(splitlines(content)))

\* Post.process_image
process_image(content) == set_image_caption(set_image_size(content))

(***************************************************************************)
(* Post.process_callouts                                                   *)
(***************************************************************************)
CalloutTypes ==
    { <<"w","a","r","n","i","n","g">>, <<"t","i","p">>,
      <<"d","a","n","g","e","r">>, <<"i","n","f","o">> }

MarkerLine(type) == <<">"," ","[","!">> \o type \o <<"]">>

\* re.fullmatch(r"> \[!(warning|tip|danger|info)\]", s): group 1, or the
\* empty string when there is no match
callout_match(s) ==
    IF \E t \in CalloutTypes : s = MarkerLine(t)
    THEN CHOOSE t \in CalloutTypes : s = MarkerLine(t)
    ELSE <<>>

PromptLine(type) ==
    <<"{",":"," ",".","p","r","o","m","p","t","-">> \o type \o <<" ","}">>

\* one iteration of the loop over the lines: <<cur_type, newlines>>
callout_step(cur_type, newlines, line) ==
    IF cur_type # <<>> /\ ~startswith(strip(line), <<">">>)
    THEN <<<<>>, newlines \o <<PromptLine(cur_type), line>>>>
    ELSE LET m == callout_match(lower(strip(line)))
         IN  IF m # <<>> THEN <<m, newlines>>
             ELSE <<cur_type, Append(newlines, line)>>

RECURSIVE callout_loop(_, _, _)
callout_loop(lines, cur_type, newlines) ==
    IF lines = <<>> THEN <<cur_type, newlines>>
    ELSE LET r == callout_step(cur_type, newlines, lines[1])
         IN  callout_loop(Tail(lines), r[1], r[2])

process_callouts(content) ==
    LET r == callout_loop(splitlines(content), <<>>, <<>>)
    IN  join(IF r[1] # <<>> THEN Append(r[2], PromptLine(r[1])) ELSE r[2])

(***************************************************************************)
(* Post.process_urls                                                       *)
(***************************************************************************)
\* title.replace('|', '&#124;')
RECURSIVE replace_pipe(_)
replace_pipe(title) ==
    IF title = <<>> THEN <<>>
    ELSE (IF title[1] = "|" THEN <<"&","#","1","2","4",";">> ELSE <<title[1]>>)
         \o replace_pipe(Tail(title))

\* the loop over re.finditer for one line (process_zotero_url only prints)
RECURSIVE urls_scan(_, _, _, _)
urls_scan(line, scan, pos, newline) ==
    LET url == url_search(line, scan)
    IN  IF url = NoMatch THEN newline \o From(line, pos)
        ELSE urls_scan(line, url.end + 1, url.e1 + 1,
                       newline \o Slice(line, pos, url.s1 - 1)
                               \o replace_pipe(Slice(line, url.s1, url.e1)))

process_urls(content) ==
    LET lines == splitlines(content)
    IN  join([i \in 1..Len(lines) |-> urls_scan(lines[i], 1, 1, <<>>)])

(***************************************************************************)
(* Post.process_obsidian_links                                             *)
(***************************************************************************)
\* [\p{M}\p{L}\p{Nd}]: the characters a slug keeps
IsSlugChar(c) == IsLetter(c) \/ IsDigit(c)

\* regex.sub(r'[^\p{M}\p{L}\p{Nd}]+', '-', s): each run becomes one hyphen
RECURSIVE sub_runs(_, _)
sub_runs(s, inrun) ==
    IF s = <<>> THEN <<>>
    ELSE IF IsSlugChar(s[1]) THEN <<s[1]>> \o sub_runs(Tail(s), FALSE)
    ELSE (IF inrun THEN <<>> ELSE <<"-">>) \o sub_runs(Tail(s), TRUE)

\* regex.sub(r'^-|-$', '', slug)
trim_hyphen(slug) ==
    LET a == IF slug # <<>> /\ slug[1] = "-" THEN Tail(slug) ELSE slug
    IN  IF a # <<>> /\ a[Len(a)] = "-" THEN SubSeq(a, 1, Len(a) - 1) ELSE a

sanitize_slug(string) == trim_hyphen(sub_runs(strip(string), FALSE))

anchor(title) ==
    <<"<","a"," ","h","r","e","f","=","\"","/","p","o","s","t","s","/">>
    \o sanitize_slug(lower(title)) \o <<"/","\"",">">> \o title
    \o <<"<","/","a",">">>

RECURSIVE links_scan(_, _, _)
links_scan(line, pos, newline) ==
    LET url == wikilink_search(line, pos)
    IN  IF url = NoMatch THEN newline \o From(line, pos)
        ELSE links_scan(line, url.end + 1,
                        newline \o Slice(line, pos, url.start - 1)
                                \o anchor(Slice(line, url.s1, url.e1)))

process_obsidian_links(content) ==
    LET lines == splitlines(content)
    IN  join([i \in 1..Len(lines) |-> links_scan(lines[i], 1, <<>>)])

(***************************************************************************)
(* Note.exec_code / Post.exec_code                                         *)
(***************************************************************************)
Sentinel == <<"#"," ","p","o","s","t">>

AssignHead == <<"c","o","n","t","e","n","t","+","=","'">>

\* the snippets of the model: content+=' [[p]]', the same after a "# post"
\* line with [[q]], and x=1, which leaves no binding named content
PreSnippet == AssignHead \o <<" ","[","[","p","]","]">> \o <<"'">>

PostSnippet == Sentinel \o <<"\n">> \o AssignHead \o <<" ","[","[","q","]","]">> \o <<"'">>

BadSnippet == <<"x","=","1">>

BadPostSnippet == Sentinel \o <<"\n">> \o BadSnippet

\* exec(code, {'content': content}, ldict); ldict['content'].  A snippet is
\* a run of comment lines and then one statement content+='<text>'; any
\* other statement binds no content and ldict['content'] raises KeyError.
RECURSIVE drop_comments(_)
drop_comments(lines) ==
    IF lines # <<>> /\ startswith(lines[1], <<"#">>)
    THEN drop_comments(Tail(lines)) ELSE lines

exec(code, content) ==
    LET stmts == drop_comments(splitlines(code))
        s     == stmts[1]
    IN  IF Len(stmts) = 1 /\ startswith(s, AssignHead)
           /\ Len(s) > Len(AssignHead) /\ s[Len(s)] = "'"
        THEN [ok |-> TRUE,
              content |-> content \o Slice(s, Len(AssignHead) + 1, Len(s) - 1)]
        ELSE [ok |-> FALSE, content |-> content]

\* a variant of exec_code in which a snippet that raises is passed over
exec_code_unchecked(code, content) ==
    IF code = <<>> \/ ~exec(code, content).ok
    THEN [ok |-> TRUE, content |-> content]
    ELSE exec(code, content)

\* exec_code: returns at once when there is no code
exec_code(code, content) ==
    IF code = <<>> THEN [ok |-> TRUE, content |-> content]
    ELSE exec(code, content)

(***************************************************************************)
(* Post.__init__: the calls made on the content, in order                  *)
(***************************************************************************)
SwappedStages ==
    << "set_image_size", "set_image_caption", "process_callouts",
       "process_urls", "process_obsidian_links", "exec_code" >>

PostStages ==
    << "set_image_size", "set_image_caption", "process_callouts",
       "process_obsidian_links", "process_urls", "exec_code" >>

\* where control goes after a stage
NextPc(stage) ==
    LET i == CHOOSE k \in 1..Len(PostStages) : PostStages[k] = stage
    IN  IF i = Len(PostStages) THEN "done" ELSE PostStages[i + 1]

(***************************************************************************)
(* The vault, the clock and the front matter                               *)
(*                                                                         *)
(* A front matter mapping is a function from keys to values; the empty     *)
(* function stands for None and for {} alike (the code only tests "not").  *)
(* A time is a day of January 2024.  A datetime value, as the YAML loader  *)
(* returns for an unquoted timestamp, is written <<"datetime", day>>.      *)
(***************************************************************************)
NoMapping == <<>>

DateKey == <<"d","a","t","e">>

ModifiedKey == <<"l","a","s","t","_","m","o","d","i","f","i","e","d","_","a","t">>

DayPrefix == <<"2","0","2","4","-","0","1","-","0">>

\* time.strftime("%Y-%m-%d %H:%M:%S +0800", t)
format_time(t) ==
    DayPrefix \o str(t) \o <<" ","0","0",":","0","0",":","0","0"," ","+","0","8","0","0">>

IsDatetime(v) == Len(v) = 2 /\ v[1] = "datetime"

\* datetime.strftime("%Y-%m-%d %H:%M:%S")
strftime(v) == DayPrefix \o <<v[2]>> \o <<" ","0","0",":","0","0",":","0","0">>

\* same_day(a, b)
same_day(a, b) == a = b

\* The note files of the vault, by path under the vault root
VaultFile(path, metadata, body, ctime, mtime) ==
    [path |-> path, metadata |-> metadata, content |-> body,
     ctime |-> ctime, mtime |-> mtime]

Vault ==
    { VaultFile(<<"A",".","m","d">>, NoMapping,
                <<">"," ","[","!","t","i","p","]","\n",">"," ","b","\n","t">>, 1, 2),
      VaultFile(<<"s","u","b","/","A",".","m","d">>, NoMapping, <<"t">>, 1, 1),
      VaultFile(<<"B"," ","b",".","m","d">>, DateKey :> <<"datetime", "3">>,
                <<"!","[","a","|","c","]","(","u",")">>, 1, 1) }

NoFile == VaultFile(<<>>, NoMapping, <<>>, 0, 0)

\* the part of a path after its last "/"
basename(path) == From(path, rfind(path, "/") + 1)

\* Note.find_file: the matching path of the least length, NoFile when the
\* glob matches nothing (the script then exits)
find_file(name) ==
    LET glob  == name \o <<".","m","d">>
        found == IF rfind(name, "/") # 0
                 THEN {f \in Vault : f.path = glob}
                 ELSE {f \in Vault : basename(f.path) = glob}
    IN  IF found = {} THEN NoFile
        ELSE CHOOSE f \in found : \A g \in found : Len(f.path) <= Len(g.path)

\* yaml.load of a block of "key: value" lines with plain string values
RECURSIVE yaml_load(_)
yaml_load(text) ==
    LET lines == splitlines(text)
        l     == lines[1]
        C     == {i \in 1..(Len(l) - 1) : l[i] = ":" /\ l[i + 1] = " "}
    IN  IF lines = <<>> THEN NoMapping
        ELSE IF C = {} THEN yaml_load(join(Tail(lines)))
        ELSE yaml_load(join(Tail(lines)))
             @@ (Slice(l, 1, SetMin(C) - 1) :> From(l, SetMin(C) + 2))

(***************************************************************************)
(* Note                                                                    *)
(***************************************************************************)
Heading(text) == [type |-> "heading", info |-> <<>>, content |-> text]

Fence(info, text) == [type |-> "fence", info |-> info, content |-> text]

Paragraph(text) == [type |-> "paragraph", info |-> <<>>, content |-> text]

\* the fields of a Note as __init__ leaves them before self.parse(nodes)
NewNote ==
    [name |-> <<>>, file |-> NoFile, code |-> <<>>, post_code |-> <<>>,
     frontmatter |-> NoMapping, content |-> <<>>]

Ok(note) == [ok |-> TRUE, note |-> note]

Exit(note) == [ok |-> FALSE, note |-> note]

\* Note.parse, the branch of a fenced python block
parse_python(note, text) ==
    IF note.code = <<>> /\ ~startswith(text, Sentinel)
    THEN [note EXCEPT !.code = text]
    ELSE [note EXCEPT !.post_code = text]

\* Note.parse, one node
parse_node(note, node) ==
    IF node.type = "heading"
    THEN LET name == Slice(node.content, 3, Len(node.content) - 2)
             file == find_file(name)
         IN  IF file = NoFile THEN Exit([note EXCEPT !.name = name])
             ELSE Ok([note EXCEPT !.name = name, !.file = file])
    ELSE IF node.type = "fence" /\ lower(node.info) = <<"y","a","m","l">>
    THEN Ok([note EXCEPT !.frontmatter = yaml_load(node.content)])
    ELSE IF node.type = "fence" /\ lower(node.info) = <<"p","y","t","h","o","n">>
    THEN Ok(parse_python(note, node.content))
    ELSE Exit(note)

\* Note.parse
RECURSIVE parse(_, _)
parse(note, ns) ==
    IF ns = <<>> THEN Ok(note)
    ELSE LET r == parse_node(note, ns[1])
         IN  IF r.ok THEN parse(r.note, Tail(ns)) ELSE r

\* Note.read_content
read_content(note) ==
    [note EXCEPT !.content = note.file.content,
                 !.frontmatter = IF note.frontmatter = NoMapping
                                 THEN note.file.metadata ELSE note.frontmatter]

\* Note.set_frontmatter
set_frontmatter(note) ==
    LET fm    == note.frontmatter
        ctime == note.file.ctime
        mtime == note.file.mtime
        dated == IF DateKey \notin DOMAIN fm
                 THEN (DateKey :> format_time(ctime)) @@ fm
                 ELSE IF IsDatetime(fm[DateKey])
                      THEN [fm EXCEPT ![DateKey] = strftime(fm[DateKey])]
                      ELSE fm
    IN  [note EXCEPT !.frontmatter =
            IF ~same_day(ctime, mtime) /\ ModifiedKey \notin DOMAIN dated
            THEN (ModifiedKey :> format_time(mtime)) @@ dated
            ELSE dated]

\* Note.__init__; readable is whether open() and read() of the note file
\* succeed.  The result is not ok when the script exits or an exception
\* leaves it.
NoteInit(ns, readable) ==
    LET parsed == parse(NewNote, ns)
        read   == set_frontmatter(read_content(parsed.note))
        ran    == exec_code(read.code, read.content)
    IN  IF ~parsed.ok \/ parsed.note.file = NoFile \/ ~readable
        THEN Exit(parsed.note)
        ELSE IF ~ran.ok THEN Exit(read)
        ELSE Ok([read EXCEPT !.content = ran.content])

(***************************************************************************)
(* Post objects and the files of <blog>/_posts                             *)
(***************************************************************************)
\* '-'.join(name.lower().split(' '))
name_part(name) ==
    [i \in 1..Len(name) |-> IF lower(name)[i] = " " THEN "-" ELSE lower(name)[i]]

\* Post.file of a post made from a note
PostFile(note) ==
    Slice(note.frontmatter[DateKey], 1, 10) \o <<"-">> \o name_part(note.name)
    \o <<".","m","d">>

\* a Post object; by is "note" for one made from a note, "none" where the
\* script holds no post, and for one read from a file "before" when the
\* file was there as the script started and "run" when dump() opened it
PostEntry(by, file, frontmatter, body) ==
    [by |-> by, file |-> file, frontmatter |-> frontmatter, content |-> body]

NoPost == PostEntry("none", <<>>, NoMapping, <<>>)

TitleKey == <<"t","i","t","l","e">>

\* what may lie at a post's path as the script starts: nothing, a post with
\* the same front matter, one that differs in last_modified_at only, or one
\* that differs in the title only
Found(file, frontmatter) ==
    { NoPost,
      PostEntry("before", file, frontmatter, <<>>),
      PostEntry("before", file,
                (ModifiedKey :> format_time(9)) @@ frontmatter, <<>>),
      PostEntry("before", file, (TitleKey :> <<"U">>) @@ frontmatter, <<>>) }

(***************************************************************************)
(* State.  One record's body going through Note.__init__ and               *)
(* Post.__init__ (content .. doc), and the run of the script over the      *)
(* index document (args .. bpc).                                           *)
(***************************************************************************)
VARIABLES
    content,            \* Note.content, then Post.content
    code,               \* Note.code: the pre snippet, <<>> for None
    post_code,          \* Note.post_code / Post.code: the post snippet
    pc,                 \* the call about to be made on the content
    trace,              \* history: the calls made, each with its input and output
    doc,                \* history: the lines the body was written from
    args,               \* the flags --write and --force
    children,           \* root.children still to be read
    nodes,              \* the blocks of the heading being read
    notes,              \* the Note objects built
    todo,               \* the notes the publish loop has not reached
    modified_posts,
    newly_added_posts,
    new_post,           \* the post made from the note the publish loop is at
    old_post,           \* the post read from the file at new_post's path
    posts,              \* <blog>/_posts: file name -> the file as a post
    dumps,              \* history: the calls of dump(), each with its outcome
    repo,               \* the commits made and whether they were pushed
    bpc                 \* where the script is

pvars == <<content, code, post_code, pc, trace, doc>>

bvars == <<args, children, nodes, notes, todo, modified_posts,
           newly_added_posts, new_post, old_post, posts, dumps, repo, bpc>>

vars == <<content, code, post_code, pc, trace, doc, args, children, nodes,
          notes, todo, modified_posts, newly_added_posts, new_post, old_post,
          posts, dumps, repo, bpc>>

(***************************************************************************)
(* Bodies.  A line is written as a sequence of segments, plain text or an  *)
(* image reference ![alt|suffix|...](url).                                 *)
(***************************************************************************)
Text(s) == [k |-> "text", s |-> s, alt |-> <<>>, sufs |-> <<>>, url |-> <<>>]

Img(alt, sufs, url) == [k |-> "img", s |-> <<>>, alt |-> alt, sufs |-> sufs, url |-> url]

RECURSIVE WithSuffixes(_, _)
WithSuffixes(alt, sufs) ==
    IF sufs = <<>> THEN alt
    ELSE WithSuffixes(alt \o <<"|">> \o sufs[1], Tail(sufs))

RenderSeg(g) ==
    IF g.k = "text" THEN g.s
    ELSE <<"!","[">> \o WithSuffixes(g.alt, g.sufs) \o <<"]","(">> \o g.url \o <<")">>

RECURSIVE RenderLine(_)
RenderLine(segs) ==
    IF segs = <<>> THEN <<>> ELSE RenderSeg(segs[1]) \o RenderLine(Tail(segs))

RenderDoc(d) == join([i \in 1..Len(d) |-> RenderLine(d[i])])

SeqsUpTo(S, n) == UNION {[1..k -> S] : k \in 1..n}

(***************************************************************************)
(* One record's body                                                       *)
(***************************************************************************)
BatchIdle ==
    /\ args = [write |-> FALSE, force |-> FALSE]
    /\ children = <<>>
    /\ nodes = <<>>
    /\ notes = <<>>
    /\ todo = <<>>
    /\ modified_posts = <<>>
    /\ newly_added_posts = <<>>
    /\ new_post = NoPost
    /\ old_post = NoPost
    /\ posts = <<>>
    /\ dumps = <<>>
    /\ repo = [commits |-> <<>>, pushed |-> FALSE]
    /\ bpc = "idle"

\* a note read from the vault, with the snippets its index record carries
BodyInit(Docs) ==
    /\ doc \in Docs
    /\ content = RenderDoc(doc)
    /\ code \in {<<>>, PreSnippet, BadSnippet}
    /\ post_code \in {<<>>, PostSnippet, BadPostSnippet}
    /\ pc = "Note.exec_code"
    /\ trace = <<>>
    /\ BatchIdle

Called(stage, in, out) == [stage |-> stage, in |-> in, out |-> out]

\* Note.__init__: self.exec_code(), and then Post.__init__ takes the content
NoteExecCode ==
    /\ pc = "Note.exec_code"
    /\ LET r == exec_code(code, content)
       IN  /\ content' = r.content
           /\ trace' = Append(trace, Called("Note.exec_code", content, r.content))
           /\ pc' = IF r.ok THEN PostStages[1] ELSE "raised"
    /\ UNCHANGED <<code, post_code, doc>>
    /\ UNCHANGED bvars

\* what a call of a text stage leaves behind
Returned(stage, out) ==
    /\ content' = out
    /\ trace' = Append(trace, Called(stage, content, out))
    /\ pc' = NextPc(stage)
    /\ UNCHANGED <<code, post_code, doc>>
    /\ UNCHANGED bvars

\* Post.process_image: self.set_image_size()
SetImageSize ==
    /\ pc = "set_image_size"
    /\ Returned("set_image_size", set_image_size(content))

\* Post.process_image: self.set_image_caption()
SetImageCaption ==
    /\ pc = "set_image_caption"
    /\ Returned("set_image_caption", set_image_caption(content))

ProcessCallouts ==
    /\ pc = "process_callouts"
    /\ Returned("process_callouts", process_callouts(content))

ProcessObsidianLinks ==
    /\ pc = "process_obsidian_links"
    /\ Returned("process_obsidian_links", process_obsidian_links(content))

ProcessUrls ==
    /\ pc = "process_urls"
    /\ Returned("process_urls", process_urls(content))

\* Post.exec_code
PostExecCode ==
    /\ pc = "exec_code"
    /\ LET r == exec_code(post_code, content)
       IN  /\ content' = r.content
           /\ trace' = Append(trace, Called("exec_code", content, r.content))
           /\ pc' = IF r.ok THEN NextPc("exec_code") ELSE "raised"
    /\ UNCHANGED <<code, post_code, doc>>
    /\ UNCHANGED bvars

BodyNext ==
    \/ NoteExecCode
    \/ SetImageSize
    \/ SetImageCaption
    \/ ProcessCallouts
    \/ ProcessObsidianLinks
    \/ ProcessUrls
    \/ PostExecCode

(***************************************************************************)
(* Families of bodies, and the specification of one record's body over     *)
(* each of them                                                            *)
(***************************************************************************)
MaxCalloutLines == 3

MaxImageLines == 2

MaxLinkLines == 2

CalloutLines ==
    { <<Text(<<">"," ","[","!","t","i","p","]">>)>>,
      <<Text(<<" ",">"," ","[","!","I","N","F","O","]"," ">>)>>,
      <<Text(<<">"," ","[","!","n","o","t","e","]">>)>>,
      <<Text(<<">"," ","b">>)>>,
      <<Text(<<"t">>)>> }

SizeSuffixes ==
    { <<>>, << <<"1","0">> >>, << <<"0">> >>, << <<"1","0","x","2","0">> >>,
      << <<"1","0","x","0">> >>, << <<"c">> >>, << <<"c">>, <<"1","0">> >>,
      << <<"1","0","x">> >> }

\* one image reference on the line, alone or after some text
SizeLines ==
    { <<Text(pre), Img(<<"a">>, sufs, <<"u">>)>> :
        pre \in {<<>>, <<"t"," ">>}, sufs \in SizeSuffixes }

\* one image reference on the line, with text before or after it
CaptionLines ==
    { <<Text(pre), Img(<<"a">>, sufs, <<"u">>), Text(post)>> :
        pre \in {<<>>, <<"t"," ">>},
        sufs \in { <<>>, << <<"c">> >>, << <<"c">>, <<"1","0">> >> },
        post \in {<<>>, <<" ","(","x",")">>} }

\* one or two image references on the line
MultiLines ==
    { <<Text(pre), Img(<<"a">>, sufs, <<"u">>)>> :
        pre \in {<<>>, <<"t"," ">>}, sufs \in { <<>>, << <<"1">> >> } }
    \cup
    { <<Img(<<"a">>, s1, <<"u">>), Text(<<" ">>), Img(<<"b">>, s2, <<"v">>)>> :
        s1 \in { <<>>, << <<"1">> >> }, s2 \in { <<>>, << <<"2">> >> } }

LinkLines ==
    { <<Text(<<"[","a","|","b","]","(","u",")">>)>>,
      <<Text(<<"[","[","a","|","b","]","]","(","u",")">>)>>,
      <<Text(<<"[","[","C"," ","d","]","]">>)>>,
      <<Text(<<"t">>)>> }

SpecCallout == BodyInit(SeqsUpTo(CalloutLines, MaxCalloutLines)) /\ [][BodyNext]_vars

SpecSize == BodyInit(SeqsUpTo(SizeLines, MaxImageLines)) /\ [][BodyNext]_vars

SpecCaption == BodyInit(SeqsUpTo(CaptionLines, MaxImageLines)) /\ [][BodyNext]_vars

SpecMulti == BodyInit(SeqsUpTo(MultiLines, MaxImageLines)) /\ [][BodyNext]_vars

SpecLinks == BodyInit(SeqsUpTo(LinkLines, MaxLinkLines)) /\ [][BodyNext]_vars

(***************************************************************************)
(* The script: the index document is read into notes, each note is made a  *)
(* post and written, and the blog repository is committed                  *)
(***************************************************************************)
MaxNodes == 3

\* the block of the index document's own front matter
FrontMatter == [type |-> "front_matter", info |-> <<>>, content |-> <<>>]

\* the blocks an index document is written from
NodeKinds ==
    { FrontMatter,
      Heading(<<"[","[","A","]","]">>),
      Heading(<<"[","[","B"," ","b","]","]">>),
      Heading(<<"[","[","C","]","]">>),
      Fence(<<"y","a","m","l">>, <<"t","i","t","l","e",":"," ","T">>),
      Fence(<<"p","y","t","h","o","n">>, PreSnippet),
      Fence(<<"p","y","t","h","o","n">>, PostSnippet),
      Fence(<<"p","y","t","h","o","n">>, BadSnippet),
      Fence(<<"p","y","t","h","o","n">>, BadPostSnippet),
      Paragraph(<<"t">>) }

\* ','.join(names)
RECURSIVE join_comma(_)
join_comma(parts) ==
    IF parts = <<>> THEN <<>>
    ELSE IF Len(parts) = 1 THEN parts[1]
    ELSE parts[1] \o <<",">> \o join_comma(Tail(parts))

\* [p.file[:-3] for p in ps]
Stems(ps) == [i \in 1..Len(ps) |-> Slice(ps[i].file, 1, Len(ps[i].file) - 3)]

\* the commit message
commit_message(modified, added, given) ==
    LET m == IF modified # <<>>
             THEN <<"M","o","d","i","f","i","e","d"," ","p","o","s","t","s",":"," ">>
                  \o join_comma(Stems(modified)) \o <<".">>
             ELSE <<>>
        a == IF added # <<>>
             THEN m \o (IF m # <<>> THEN <<" ">> ELSE <<>>)
                  \o <<"N","e","w","l","y"," ","a","d","d","e","d"," ","p","o","s","t","s",":"," ">>
                  \o join_comma(Stems(added)) \o <<".">>
             ELSE m
    IN  IF given # <<>> THEN a \o (IF a # <<>> THEN <<" ">> ELSE <<>>) \o given
        ELSE a

PipelineIdle ==
    /\ content = <<>>
    /\ code = <<>>
    /\ post_code = <<>>
    /\ pc = "idle"
    /\ trace = <<>>
    /\ doc = <<>>

Init ==
    /\ args \in [write : BOOLEAN, force : BOOLEAN]
    /\ children \in {<<>>} \cup SeqsUpTo(NodeKinds, MaxNodes)
    /\ nodes = <<>>
    /\ notes = <<>>
    /\ todo = <<>>
    /\ modified_posts = <<>>
    /\ newly_added_posts = <<>>
    /\ new_post = NoPost
    /\ old_post = NoPost
    /\ posts = <<>>
    /\ dumps = <<>>
    /\ repo = [commits |-> <<>>, pushed |-> FALSE]
    /\ bpc = "parse"
    /\ PipelineIdle

\* the loop over root.children, one node: at a heading the blocks gathered
\* so far become a Note
ReadNode ==
    /\ bpc = "parse"
    /\ children # <<>>
    /\ LET node == Head(children)
       IN  IF node.type = "front_matter"
           THEN /\ children' = Tail(children)
                /\ UNCHANGED <<notes, nodes, bpc>>
           ELSE IF node.type = "heading" /\ nodes # <<>>
           THEN \E readable \in BOOLEAN :
                   LET n == NoteInit(nodes, readable)
                   IN  IF n.ok
                       THEN /\ notes' = Append(notes, n.note)
                            /\ nodes' = <<node>>
                            /\ children' = Tail(children)
                            /\ UNCHANGED bpc
                       ELSE /\ bpc' = "exit(-1)"
                            /\ UNCHANGED <<notes, nodes, children>>
           ELSE /\ nodes' = (IF node.type = "heading" THEN <<node>>
                             ELSE Append(nodes, node))
                /\ children' = Tail(children)
                /\ UNCHANGED <<notes, bpc>>
    /\ UNCHANGED <<args, todo, modified_posts, newly_added_posts, new_post,
                   old_post, posts, dumps, repo>>
    /\ UNCHANGED pvars

\* after the loop: the blocks left become the last Note
EndOfIndex ==
    /\ bpc = "parse"
    /\ children = <<>>
    /\ IF nodes # <<>>
       THEN \E readable \in BOOLEAN :
               LET n == NoteInit(nodes, readable)
               IN  IF n.ok
                   THEN /\ notes' = Append(notes, n.note)
                        /\ todo' = notes'
                        /\ bpc' = "publish"
                   ELSE /\ bpc' = "exit(-1)"
                        /\ UNCHANGED <<notes, todo>>
       ELSE /\ todo' = notes
            /\ bpc' = "publish"
            /\ UNCHANGED notes
    /\ UNCHANGED <<args, children, nodes, modified_posts, newly_added_posts,
                   new_post, old_post, posts, dumps, repo>>
    /\ UNCHANGED pvars

\* the publish loop, Post(blog_path, note=note): Post.__init__ takes the
\* note's content and post snippet and starts the calls on the content
PostInit ==
    /\ bpc = "publish"
    /\ todo # <<>>
    /\ content' = Head(todo).content
    /\ code' = Head(todo).code
    /\ post_code' = Head(todo).post_code
    /\ pc' = PostStages[1]
    /\ trace' = <<>>
    /\ bpc' = "Post.__init__"
    /\ UNCHANGED doc
    /\ UNCHANGED <<args, children, nodes, notes, todo, modified_posts,
                   newly_added_posts, new_post, old_post, posts, dumps, repo>>

\* the publish loop, once Post.__init__ has returned: new_post is the post
\* made, and is_file() and old_post = Post(blog_path, file=...) follow.
\* found is the file at the path when the script has not looked at it, and
\* readable whether open() and read() of the file succeed.  A file this run
\* has written is read back through the YAML dump and load of the
\* libraries, which gives its front matter or one of the found ones.
OldPost ==
    /\ bpc = "Post.__init__"
    /\ pc = "done"
    /\ \E found \in Found(PostFile(Head(todo)), Head(todo).frontmatter),
          readable \in BOOLEAN :
          LET made == PostEntry("note", PostFile(Head(todo)),
                                Head(todo).frontmatter, content)
              seen == made.file \in DOMAIN posts
              file == IF ~seen THEN found
                      ELSE IF posts[made.file].by = "run" /\ found # NoPost
                           THEN [found EXCEPT !.by = "run"]
                           ELSE posts[made.file]
          IN  /\ new_post' = made
              /\ posts' = (IF seen THEN posts ELSE (made.file :> found) @@ posts)
              /\ IF file.by = "none" \/ readable
                 THEN /\ old_post' = file
                      /\ bpc' = "compare"
                 ELSE /\ bpc' = "exit(-1)"
                      /\ UNCHANGED old_post
    /\ UNCHANGED <<args, children, nodes, notes, todo, modified_posts,
                   newly_added_posts, dumps, repo>>
    /\ UNCHANGED pvars

\* a variant of same_frontmatter that leaves last_modified_at out
same_but_for_modified(old, new) ==
    LET rest(fm) == [k \in DOMAIN fm \ {ModifiedKey} |-> fm[k]]
    IN  rest(old.frontmatter) = rest(new.frontmatter)

\* old_post.frontmatter == new_post.frontmatter
same_frontmatter(old, new) == old.frontmatter = new.frontmatter

\* the publish loop, from the comparison of the front matters to dump();
\* dumped is how dump() ends: the file written, open() failed, or the file
\* opened (and so emptied) and write() failed
WritePost ==
    /\ bpc = "compare"
    /\ LET is_file == old_post.by # "none"
           same    == same_frontmatter(old_post, new_post)
           record  == Len(notes) - Len(todo) + 1
       IN  IF is_file /\ same /\ ~args.force
           THEN /\ bpc' = "publish"
                /\ UNCHANGED <<modified_posts, newly_added_posts, posts, dumps>>
           ELSE /\ modified_posts' = (IF is_file /\ ~same
                                      THEN Append(modified_posts, new_post)
                                      ELSE modified_posts)
                /\ newly_added_posts' = (IF ~is_file
                                         THEN Append(newly_added_posts, new_post)
                                         ELSE newly_added_posts)
                /\ IF args.write
                   THEN \E dumped \in {"written", "not opened", "emptied"} :
                          /\ dumps' = Append(dumps, [record |-> record,
                                                     file |-> new_post.file,
                                                     result |-> dumped])
                          /\ posts' =
                               IF dumped = "written"
                               THEN (new_post.file :>
                                       PostEntry("run", new_post.file,
                                                 new_post.frontmatter,
                                                 new_post.content)) @@ posts
                               ELSE IF dumped = "emptied"
                               THEN (new_post.file :>
                                       PostEntry("run", new_post.file,
                                                 NoMapping, <<>>)) @@ posts
                               ELSE posts
                          /\ bpc' = (IF dumped = "written" THEN "publish"
                                     ELSE "exit(-1)")
                   ELSE /\ bpc' = "publish"
                        /\ UNCHANGED <<posts, dumps>>
    /\ todo' = (IF bpc' = "publish" THEN Tail(todo) ELSE todo)
    /\ UNCHANGED <<args, children, nodes, notes, new_post, old_post, repo>>
    /\ UNCHANGED pvars

\* after the publish loop: commit and push.  The flags --commit and --push
\* and the option --commit_msg (<<>> for None) are read here only, and are
\* drawn here.
Commit ==
    /\ bpc = "publish"
    /\ todo = <<>>
    /\ \E commit \in BOOLEAN, push \in BOOLEAN, commit_msg \in {<<>>, <<"m">>} :
          LET changed == newly_added_posts \o modified_posts
          IN  IF commit /\ (Len(changed) > 0 \/ commit_msg # <<>>)
              THEN repo' = [commits |-> Append(repo.commits,
                                               commit_message(modified_posts,
                                                              newly_added_posts,
                                                              commit_msg)),
                            pushed |-> push]
              ELSE UNCHANGED repo
    /\ bpc' = "exit(0)"
    /\ UNCHANGED <<args, children, nodes, notes, todo, modified_posts,
                   newly_added_posts, new_post, old_post, posts, dumps>>
    /\ UNCHANGED pvars

Next ==
    \/ ReadNode
    \/ EndOfIndex
    \/ PostInit
    \/ SetImageSize
    \/ SetImageCaption
    \/ ProcessCallouts
    \/ ProcessObsidianLinks
    \/ ProcessUrls
    \/ PostExecCode
    \/ OldPost
    \/ WritePost
    \/ Commit

Spec == Init /\ [][Next]_vars

(***************************************************************************)
(* Properties of one record's body                                         *)
(***************************************************************************)
\* the calls of a stage recorded so far
Calls(stage) == {i \in 1..Len(trace) : trace[i].stage = stage}

\* a is b with some elements left out
RECURSIVE IsSubseq(_, _)
IsSubseq(a, b) ==
    IF a = <<>> THEN TRUE
    ELSE IF b = <<>> THEN FALSE
    ELSE IF a[1] = b[1] THEN IsSubseq(Tail(a), Tail(b))
    ELSE IsSubseq(a, Tail(b))

Last(s) == s[Len(s)]

Front(s) == SubSeq(s, 1, Len(s) - 1)

IsPromptLine(l) == \E t \in CalloutTypes : l = PromptLine(t)

\* the lines of an output that are no attribute lines
RECURSIVE NonPrompt(_)
NonPrompt(O) ==
    IF O = <<>> THEN <<>>
    ELSE (IF IsPromptLine(O[1]) THEN <<>> ELSE <<O[1]>>) \o NonPrompt(Tail(O))

\* the positions of the attribute lines of an output, in order
RECURSIVE PromptPositions(_, _)
PromptPositions(O, i) ==
    IF i > Len(O) THEN <<>>
    ELSE (IF IsPromptLine(O[i]) THEN <<i>> ELSE <<>>) \o PromptPositions(O, i + 1)

StartsQuote(l) == startswith(strip(l), <<">">>)

MarkerType(l) == callout_match(lower(strip(l)))

\* The callouts of the lines L as section 4.3 of the specification reads
\* them: each marker read in state no_callout, with the position of the
\* line that closes it (0: the input ends first).  open is the type of the
\* callout the line at i is read in, <<>> in state no_callout.
RECURSIVE Openings(_, _, _, _)
Openings(L, i, open, acc) ==
    IF i > Len(L) THEN acc
    ELSE IF open = <<>>
         THEN IF MarkerType(L[i]) # <<>>
              THEN Openings(L, i + 1, MarkerType(L[i]),
                            Append(acc, [type |-> MarkerType(L[i]), at |-> i, close |-> 0]))
              ELSE Openings(L, i + 1, <<>>, acc)
         ELSE IF StartsQuote(L[i])
              THEN Openings(L, i + 1, open, acc)
              ELSE Openings(L, i + 1, <<>>, [acc EXCEPT ![Len(acc)].close = i])

\* L without the lines at the positions in D
RECURSIVE Without(_, _, _)
Without(L, D, i) ==
    IF i > Len(L) THEN <<>>
    ELSE (IF i \in D THEN <<>> ELSE <<L[i]>>) \o Without(L, D, i + 1)

CalloutClaim(L, O) ==
    LET ops == Openings(L, 1, <<>>, <<>>)
        A   == PromptPositions(O, 1)
    IN  /\ Len(A) = Len(ops)
        /\ \A k \in 1..Len(ops) :
              /\ O[A[k]] = PromptLine(ops[k].type)
              /\ IF ops[k].close = 0 THEN A[k] = Len(O)
                 ELSE A[k] < Len(O) /\ O[A[k] + 1] = L[ops[k].close]
        /\ IsSubseq(NonPrompt(O),
                    Without(L, {ops[k].at : k \in 1..Len(ops)}, 1))

\* C1: process_callouts drops each marker line read in state no_callout and
\* emits exactly one attribute line of that marker's type for it, right
\* before the first following line that does not start with ">" or as the
\* last line of the output, and no attribute line anywhere else.
C1_MarkerToAttributeLine ==
    \A i \in Calls("process_callouts") :
        CalloutClaim(splitlines(trace[i].in), splitlines(trace[i].out))

\* the states <<cur_type, newlines>> of the loop of process_callouts after
\* each line
RECURSIVE callout_run(_, _, _)
callout_run(lines, cur_type, newlines) ==
    IF lines = <<>> THEN <<>>
    ELSE LET r == callout_step(cur_type, newlines, lines[1])
         IN  <<r>> \o callout_run(Tail(lines), r[1], r[2])

\* C8: in state in_callout(type), every line that begins with ">" after
\* trimming is emitted unchanged and the state stays in_callout(type); a
\* line that reads as a marker is such a line.
C8_QuoteLinesPassThrough ==
    \A i \in Calls("process_callouts") :
        LET L   == splitlines(trace[i].in)
            run == callout_run(L, <<>>, <<>>)
        IN  \A n \in 1..Len(L) :
                LET before == IF n = 1 THEN <<<<>>, <<>>>> ELSE run[n - 1]
                IN  before[1] # <<>> /\ StartsQuote(L[n])
                    => /\ run[n][1] = before[1]
                       /\ run[n][2] = Append(before[2], L[n])

TextStages ==
    { "set_image_size", "set_image_caption", "process_callouts",
      "process_urls", "process_obsidian_links" }

\* C9: no stage lowers the number of lines, and the lines a stage copies
\* from its input keep their order (for process_callouts: the output without
\* its attribute lines is the input with lines left out).
C9_LinesNeverLost ==
    \A i \in 1..Len(trace) :
        trace[i].stage \in TextStages =>
            LET L == splitlines(trace[i].in)
                O == splitlines(trace[i].out)
            IN  /\ Len(O) >= Len(L)
                /\ (trace[i].stage = "process_callouts"
                       => IsSubseq(NonPrompt(O), L))

\* the call of set_image_size, when it was given the body as written
SizeCallOnDoc ==
    {i \in Calls("set_image_size") : trace[i].in = RenderDoc(doc)}

IsSize(S) == size_match(S)[1]

SizeWidth(S) == size_match(S)[2]

SizeHeight(S) == size_match(S)[3]

ImageHead(alt, sufs) == <<"!","[">> \o WithSuffixes(alt, sufs) \o <<"]","(">>

QuotedAttr(name, digits) == name \o <<"=","\"">> \o digits \o <<"\"">>

\* what C3 says of the output line o of a line holding the image g
SizeClaim(g, o) ==
    LET S == Last(g.sufs)
    IN  IF IsSize(S)
        THEN /\ Contains(o, ImageHead(g.alt, Front(g.sufs)))
             /\ Contains(o, QuotedAttr(<<"w","i","d","t","h">>, SizeWidth(S)))
             /\ IF SizeHeight(S) # <<>>
                THEN Contains(o, QuotedAttr(<<"h","e","i","g","h","t">>, SizeHeight(S)))
                ELSE ~Contains(o, <<"h","e","i","g","h","t","=">>)
        ELSE /\ Contains(o, ImageHead(g.alt, g.sufs))
             /\ ~Contains(o, <<"w","i","d","t","h","=">>)
             /\ ~Contains(o, <<"h","e","i","g","h","t","=">>)

\* C3: for an image whose alt text ends in a suffix S, set_image_size
\* removes |S and writes width="W", and height="H" exactly when S has an xH
\* part, when S is \d+ or \d+x\d+ (zero values included); any other S
\* leaves the alt text alone and writes no width or height.
C3_SizeSuffixToAttributes ==
    \A i \in SizeCallOnDoc :
        LET O == splitlines(trace[i].out)
        IN  /\ Len(O) = Len(doc)
            /\ \A l \in 1..Len(doc) : \A j \in 1..Len(doc[l]) :
                  (doc[l][j].k = "img" /\ doc[l][j].sufs # <<>>)
                      => SizeClaim(doc[l][j], O[l])

\* whether segment j of a line is an image that is not the whole line
Inline(segs, j) ==
    \E n \in 1..Len(segs) : n # j /\ RenderSeg(segs[n]) # <<>>

\* the attribute block C7 gives an image: its own size and, inline, .normal
ClaimedBlock(segs, j) ==
    LET g  == segs[j]
        sz == g.sufs # <<>> /\ IsSize(Last(g.sufs))
        S  == Last(g.sufs)
        markups ==
            (IF sz THEN <<QuotedAttr(<<"w","i","d","t","h">>, SizeWidth(S))>> ELSE <<>>)
            \o (IF sz /\ SizeHeight(S) # <<>>
                THEN <<QuotedAttr(<<"h","e","i","g","h","t">>, SizeHeight(S))>> ELSE <<>>)
            \o (IF Inline(segs, j) THEN <<NormalAttr>> ELSE <<>>)
    IN  ImageHead(g.alt, IF sz THEN Front(g.sufs) ELSE g.sufs) \o g.url \o <<")">>
        \o (IF markups # <<>>
            THEN <<"{",":"," ">> \o join_space(markups) \o <<" ","}">> ELSE <<>>)

RECURSIVE ClaimedSizeLine(_, _)
ClaimedSizeLine(segs, j) ==
    IF j > Len(segs) THEN <<>>
    ELSE (IF segs[j].k = "text" THEN segs[j].s ELSE ClaimedBlock(segs, j))
         \o ClaimedSizeLine(segs, j + 1)

\* C7: set_image_size rewrites each image reference of a line from its own
\* alt text and url, marks each reference that is not the whole line with
\* .normal, and copies the text around the references as it is.
C7_EachImageRewrittenAlone ==
    \A i \in SizeCallOnDoc :
        LET O == splitlines(trace[i].out)
        IN  /\ Len(O) = Len(doc)
            /\ \A l \in 1..Len(doc) : O[l] = ClaimedSizeLine(doc[l], 1)

\* the call of set_image_caption on the output of set_image_size
CaptionCallOnDoc ==
    {i \in Calls("set_image_caption") : (i - 1) \in SizeCallOnDoc}

\* the suffixes set_image_size leaves in the alt text
AfterSize(sufs) ==
    IF sufs # <<>> /\ IsSize(Last(sufs)) THEN Front(sufs) ELSE sufs

\* What C4 says of the output lines O for the written lines d, each holding
\* one image reference at segment 2.
RECURSIVE CaptionClaim(_, _)
CaptionClaim(d, O) ==
    IF d = <<>> THEN O = <<>>
    ELSE LET g    == d[1][2]
             rest == AfterSize(g.sufs)
         IN  IF rest = <<>>
             THEN O # <<>> /\ CaptionClaim(Tail(d), Tail(O))
             ELSE IF ~Inline(d[1], 2)
             THEN /\ Len(O) >= 2
                  /\ Contains(O[1], ImageHead(g.alt, Front(rest)))
                  /\ O[2] = <<"_">> \o Last(rest) \o <<"_">>
                  /\ CaptionClaim(Tail(d), Tail(Tail(O)))
             ELSE /\ Len(O) >= 1
                  /\ Contains(O[1], ImageHead(g.alt, Front(rest)))
                  /\ CaptionClaim(Tail(d), Tail(O))

\* C4: after set_image_size, set_image_caption removes a trailing |caption
\* from the alt text; an image that is the whole line gets one line
\* _caption_ right after it, and an image with text before or after it gets
\* no caption line: its line stays one line.
C4_CaptionOnlyForBlockImages ==
    \A i \in CaptionCallOnDoc :
        CaptionClaim(doc, splitlines(trace[i].out))

StageNames(tr) == [i \in 1..Len(tr) |-> tr[i].stage]

\* each call was given what the call before it returned
Chained(tr) == \A i \in 2..Len(tr) : tr[i].in = tr[i - 1].out

\* the order C5 states: link titles are sanitized before wikilinks are resolved
ClaimedOrder ==
    << "Note.exec_code", "set_image_size", "set_image_caption",
       "process_callouts", "process_urls", "process_obsidian_links",
       "exec_code" >>

\* the order with the sanitizer after the wikilink resolver
AmendedOrder ==
    << "Note.exec_code", "set_image_size", "set_image_caption",
       "process_callouts", "process_obsidian_links", "process_urls",
       "exec_code" >>

\* C5 as stated: the body goes through pre snippet, image size, image
\* caption, callouts, link title sanitizer, wikilink resolver, post snippet,
\* each stage taking the output of the one before.
C5_ClaimedStageOrder ==
    pc = "done" => StageNames(trace) = ClaimedOrder /\ Chained(trace)

\* C5 amended: the body goes through pre snippet, image size, image caption,
\* callouts, wikilink resolver, link title sanitizer, post snippet, each
\* stage taking the output of the one before; the post snippet is given the
\* body all text stages have rewritten and returns the final body.
C5_StageOrder ==
    /\ Len(trace) <= Len(AmendedOrder)
    /\ StageNames(trace) = SubSeq(AmendedOrder, 1, Len(trace))
    /\ Chained(trace)
    /\ trace # <<>> => content = Last(trace).out
    /\ pc = "done" => Len(trace) = Len(AmendedOrder)

\* a record with both snippets is done, and its body would have come out
\* differently with the sanitizer run before the wikilink resolver
C5_Witness ==
    /\ pc = "done"
    /\ code # <<>>
    /\ post_code # <<>>
    /\ trace[6].out # process_obsidian_links(process_urls(trace[5].in))

(***************************************************************************)
(* Properties of the script                                                *)
(***************************************************************************)
\* the step of the publish loop that compares the two posts, classifies the
\* record and writes it
Classifies == bpc = "compare" /\ bpc' # "compare"

IsFile == old_post.by # "none"

EqualInEveryKey ==
    /\ DOMAIN old_post.frontmatter = DOMAIN new_post.frontmatter
    /\ \A k \in DOMAIN new_post.frontmatter :
          old_post.frontmatter[k] = new_post.frontmatter[k]

ClassifiedModified == modified_posts' = Append(modified_posts, new_post)

ClassifiedNew == newly_added_posts' = Append(newly_added_posts, new_post)

\* C2: in the publish loop, a record whose output file exists with a front
\* matter equal in every key to the record's is added to neither the
\* modified nor the new list and, without the force flag, dump() is not
\* called and no file changes; a record whose output file exists with a
\* front matter that differs is added to the modified list only; a record
\* with no output file is added to the new list only.
C2_ChangeClassification ==
    [][ Classifies =>
          /\ IsFile /\ EqualInEveryKey =>
                /\ UNCHANGED <<modified_posts, newly_added_posts>>
                /\ ~args.force => UNCHANGED <<dumps, posts>>
          /\ IsFile /\ ~EqualInEveryKey =>
                /\ ClassifiedModified
                /\ UNCHANGED newly_added_posts
          /\ ~IsFile =>
                /\ ClassifiedNew
                /\ UNCHANGED modified_posts ]_vars

\* three records have gone through the publish loop without the force flag:
\* one was new and written, one was modified and written, and one was
\* unchanged and not written
C2_Witness ==
    /\ bpc = "publish"
    /\ todo = <<>>
    /\ Len(notes) = 3
    /\ args.write
    /\ ~args.force
    /\ Len(newly_added_posts) = 1
    /\ Len(modified_posts) = 1
    /\ Len(dumps) = 2
    /\ \A i \in 1..2 : dumps[i].result = "written"

\* the records the publish loop has completed, by their place in the index
Published == 1..(Len(notes) - Len(todo))

OutputWritten == \E i \in 1..Len(dumps) : dumps[i].result = "written"

NoCommit == repo = [commits |-> <<>>, pushed |-> FALSE]

\* a snippet that raises when it is executed
Raises(snippet) == snippet # <<>> /\ ~exec(snippet, <<>>).ok

\* the run has ended on a fatal condition: the script has exited, or a
\* post snippet has raised
Fatal == bpc = "exit(-1)" \/ pc = "raised"

\* C6 as stated: when the run ends on a fatal condition, no output file has
\* been written for any record and nothing was committed.
C6_NoPartialBatch ==
    Fatal => ~OutputWritten /\ NoCommit

\* C6 amended: a fatal condition ends the run at once, with no commit and no
\* push.  No file is written for the record it arises in or for any record
\* after it: nothing is dumped after a dump() that failed or for a record at
\* or after one whose post snippet raises.  When it arises while the notes
\* are built (unknown block, missing title, note not found, unreadable note,
\* failing pre snippet) no output file has been written at all; when it
\* arises in the publish loop, the files of the records before it stay
\* written.
C6_FatalEndsRun ==
    /\ Fatal => NoCommit
    /\ Fatal => ~ENABLED Next
    /\ bpc = "parse" \/ (Fatal /\ todo = <<>>) => dumps = <<>>
    /\ \A j \in 1..Len(dumps) :
          /\ j < Len(dumps) => dumps[j].result = "written"
          /\ dumps[j].record \in 1..Len(notes)
          /\ dumps[j].record \in Published \/ j = Len(dumps)
          /\ \A i \in 1..dumps[j].record : ~Raises(notes[i].post_code)
    /\ Fatal =>
          \A j \in 1..Len(dumps) :
             dumps[j].result = "written" => dumps[j].record \in Published

\* the run ended on the post snippet of the second record, after the first
\* record's file was written
C6_Witness ==
    /\ pc = "raised"
    /\ Len(notes) = 2
    /\ Len(todo) = 1
    /\ Raises(todo[1].post_code)
    /\ Len(dumps) = 1
    /\ dumps[1].result = "written"
    /\ posts[dumps[1].file].by = "run"

\* the steps that make a Note of the blocks gathered under a heading
NoteBuilt == bpc = "parse" /\ Len(notes') = Len(notes) + 1

\* the contents of the python blocks of nodes, in order
RECURSIVE PythonBlocks(_)
PythonBlocks(ns) ==
    IF ns = <<>> THEN <<>>
    ELSE IF ns[1].type = "fence" /\ lower(ns[1].info) = <<"p","y","t","h","o","n">>
         THEN <<ns[1].content>> \o PythonBlocks(Tail(ns))
         ELSE PythonBlocks(Tail(ns))

HasSentinel(block) == startswith(block, Sentinel)

\* C10: of the python blocks under one heading, a block that begins with the
\* sentinel is not the pre snippet, the first block without the sentinel is
\* the pre snippet, and the post snippet, if there is one, begins with the
\* sentinel.
C10_SnippetAssignment ==
    [][ NoteBuilt =>
          LET blocks == PythonBlocks(nodes)
              note   == notes'[Len(notes')]
              plain  == {i \in 1..Len(blocks) : ~HasSentinel(blocks[i])}
          IN  /\ \A i \in 1..Len(blocks) :
                    HasSentinel(blocks[i]) => note.code # blocks[i]
              /\ plain # {} => note.code = blocks[SetMin(plain)]
              /\ plain = {} => note.code = <<>>
              /\ note.post_code # <<>> => HasSentinel(note.post_code) ]_vars

==========================================================================
